---- MODULE Spec2Model ----
(***************************************************************************)
(* Model of gpc.py: pitch-based gender classification of the .mp3 files    *)
(* of data/audio, scored against data/meta.csv.                            *)
(*                                                                         *)
(* Strings are sequences of one-character strings, so that strip(),        *)
(* lower(), endswith() and list.sort() are computed and not assumed.       *)
(* Frequencies are integers in units of 1/10000 Hz; a mean is the exact    *)
(* rational <<sum, count>>.                                                *)
(***************************************************************************)
EXTENDS Integers, Sequences, FiniteSets, Bags, TLC

VARIABLES
    disk,          \* data/audio: [exists, names]
    meta,          \* data/meta.csv: [exists, header, rows]
    audio,         \* what librosa.load + librosa.pyin yield for each file
    allFlag,       \* args.all
    threads,       \* args.threads
    pc,            \* position of main()
    ground_truth,  \* main: ground_truth
    audio_files,   \* main: audio_files
    results,       \* main: results
    correct,       \* main: correct
    incorrect,     \* main: incorrect
    unclassified,  \* main: unclassified
    total,         \* main: total
    idx,           \* sequential loop: number of files already iterated
    futures,       \* threaded path: state and result of each submitted task
    csvfile,       \* results.csv: [written, rows]
    printed,       \* the statistics printed: <<>> or <<the four counters>>
    runs,          \* number of invocations of main() so far
    prev           \* outcome of the previous invocation, <<>> before it

vars == <<disk, meta, audio, allFlag, threads, pc, ground_truth, audio_files,
          results, correct, incorrect, unclassified, total, idx, futures,
          csvfile, printed, runs, prev>>

env == <<disk, meta, audio, allFlag>>

----------------------------------------------------------------------------
(* Bounds *)

MaxFiles == 3
MaxRuns == 2
MaxFrames == 2
MaxRows == 2
\* the largest directory on which the runs with a thread pool are explored
MaxPooled == 5

----------------------------------------------------------------------------
(* String literals of the program *)

MALE == <<"m","a","l","e">>
FEMALE == <<"f","e","m","a","l","e">>
UNCLASSIFIED == <<"u","n","c","l","a","s","s","i","f","i","e","d">>
ERROR == <<"e","r","r","o","r">>
UNKNOWN == <<"u","n","k","n","o","w","n">>
EMPTY == <<>>
MP3 == <<".","m","p","3">>
FILENAME == <<"f","i","l","e","n","a","m","e">>
GENDER == <<"g","e","n","d","e","r">>

\* Python's None
None == <<"None">>

\* numpy.nan in an f0 array
NaN == -1

Hz == 10000

----------------------------------------------------------------------------
(* str methods *)

Whitespace == {" ", "\t"}

RECURSIVE lstrip(_)
lstrip(s) ==
    IF s # <<>> /\ Head(s) \in Whitespace THEN lstrip(Tail(s)) ELSE s

RECURSIVE rstrip(_)
rstrip(s) ==
    IF s # <<>> /\ s[Len(s)] \in Whitespace
    THEN rstrip(SubSeq(s, 1, Len(s) - 1))
    ELSE s

strip(s) == rstrip(lstrip(s))

lowerChar(c) ==
    CASE c = "M" -> "m"
      [] c = "A" -> "a"
      [] c = "L" -> "l"
      [] c = "E" -> "e"
      [] c = "F" -> "f"
      [] OTHER -> c

lower(s) == [i \in 1..Len(s) |-> lowerChar(s[i])]

endswith(s, suffix) ==
    /\ Len(s) >= Len(suffix)
    /\ SubSeq(s, Len(s) - Len(suffix) + 1, Len(s)) = suffix

\* code point order of the characters that occur in file names
ord(c) ==
    CASE c = " " -> 32
      [] c = "." -> 46
      [] c = "3" -> 51
      [] c = "a" -> 97
      [] c = "b" -> 98
      [] c = "c" -> 99
      [] c = "d" -> 100
      [] c = "e" -> 101
      [] c = "f" -> 102
      [] c = "g" -> 103
      [] c = "h" -> 104
      [] c = "i" -> 105
      [] c = "j" -> 106
      [] c = "k" -> 107
      [] c = "m" -> 109
      [] c = "p" -> 112
      [] c = "v" -> 118
      [] c = "w" -> 119
      [] OTHER -> 120

RECURSIVE strLess(_, _)
strLess(s, t) ==
    IF t = <<>> THEN FALSE
    ELSE IF s = <<>> THEN TRUE
    ELSE IF ord(Head(s)) # ord(Head(t)) THEN ord(Head(s)) < ord(Head(t))
    ELSE strLess(Tail(s), Tail(t))

RECURSIVE insertSorted(_, _)
insertSorted(x, s) ==
    IF s = <<>> THEN <<x>>
    ELSE IF strLess(Head(s), x) \/ Head(s) = x
         THEN <<Head(s)>> \o insertSorted(x, Tail(s))
         ELSE <<x>> \o s

RECURSIVE sort(_)
sort(s) == IF s = <<>> THEN <<>> ELSE insertSorted(Head(s), sort(Tail(s)))

\* [f for f in os.listdir(AUDIO_DIR) if f.endswith('.mp3')]
RECURSIVE mp3Only(_)
mp3Only(s) ==
    IF s = <<>> THEN <<>>
    ELSE IF endswith(Head(s), MP3) THEN <<Head(s)>> \o mp3Only(Tail(s))
         ELSE mp3Only(Tail(s))

slice(s, n) == SubSeq(s, 1, IF Len(s) < n THEN Len(s) ELSE n)

----------------------------------------------------------------------------
(* f"{mean_freq:.2f}" *)

digitChar(d) ==
    CASE d = 0 -> "0" [] d = 1 -> "1" [] d = 2 -> "2" [] d = 3 -> "3"
      [] d = 4 -> "4" [] d = 5 -> "5" [] d = 6 -> "6" [] d = 7 -> "7"
      [] d = 8 -> "8" [] OTHER -> "9"

RECURSIVE digits(_)
digits(n) ==
    IF n < 10 THEN <<digitChar(n)>>
    ELSE digits(n \div 10) \o <<digitChar(n % 10)>>

\* the mean sum/count (1/10000 Hz) rounded to hundredths of a Hz, ties to even
hundredths(m) ==
    LET d == m[2] * (Hz \div 100)
        q == m[1] \div d
        r == m[1] % d
    IN  IF 2 * r > d \/ (2 * r = d /\ q % 2 = 1) THEN q + 1 ELSE q

format2f(m) ==
    LET h == hundredths(m)
    IN  digits(h \div 100) \o <<".">>
          \o <<digitChar((h % 100) \div 10), digitChar(h % 10)>>

----------------------------------------------------------------------------
(* classify_gender *)

\* f0[~np.isnan(f0)]
RECURSIVE notNaN(_)
notNaN(f0) ==
    IF f0 = <<>> THEN <<>>
    ELSE IF Head(f0) = NaN THEN notNaN(Tail(f0))
         ELSE <<Head(f0)>> \o notNaN(Tail(f0))

RECURSIVE sum(_)
sum(s) == IF s = <<>> THEN 0 ELSE Head(s) + sum(Tail(s))

\* np.mean(f0) as the exact rational <<sum, count>>
mean(f0) == <<sum(f0), Len(f0)>>

\* lo <= m, m <= hi and lo < m for a mean m and a bound in Hz
geHz(m, lo) == m[1] >= lo * Hz * m[2]
leHz(m, hi) == m[1] <= hi * Hz * m[2]
gtHz(m, lo) == m[1] > lo * Hz * m[2]

\* the rule with 150 Hz given to the upper band
pitchRule_Upper150(mean_freq) ==
    IF geHz(mean_freq, 85) /\ ~geHz(mean_freq, 150) THEN MALE
    ELSE IF geHz(mean_freq, 150) /\ leHz(mean_freq, 255) THEN FEMALE
    ELSE UNCLASSIFIED

\* lines 45-50: the pitch rule applied to a mean frequency
pitchRule(mean_freq) ==
    IF geHz(mean_freq, 85) /\ leHz(mean_freq, 150) THEN MALE
    ELSE IF gtHz(mean_freq, 150) /\ leHz(mean_freq, 255) THEN FEMALE
    ELSE UNCLASSIFIED

\* the handler of line 51 reporting a fault as a file without pitch
classify_gender_FaultAsSilent(a) ==
    IF a.raises THEN <<UNCLASSIFIED, None>>
    ELSE LET f0 == notNaN(a.f0)
         IN  IF Len(f0) = 0 THEN <<UNCLASSIFIED, None>>
             ELSE <<pitchRule(mean(f0)), mean(f0)>>

\* line 41-42 missing: a file without voiced frames reaches np.mean of an
\* empty array and the handler of line 51
classify_gender_SilentAsError(a) ==
    IF a.raises THEN <<ERROR, None>>
    ELSE LET f0 == notNaN(a.f0)
         IN  IF Len(f0) = 0 THEN <<ERROR, None>>
             ELSE <<pitchRule(mean(f0)), mean(f0)>>

\* line 50 returning no mean for a frequency outside both bands
classify_gender_DropMean(a) ==
    IF a.raises THEN <<ERROR, None>>
    ELSE LET f0 == notNaN(a.f0)
         IN  IF Len(f0) = 0 THEN <<UNCLASSIFIED, None>>
             ELSE IF pitchRule(mean(f0)) = UNCLASSIFIED
                  THEN <<UNCLASSIFIED, None>>
                  ELSE <<pitchRule(mean(f0)), mean(f0)>>

\* a is what load and pyin do on the file: [raises, f0]
classify_gender(a) ==
    IF a.raises THEN <<ERROR, None>>
    ELSE LET f0 == notNaN(a.f0)
         IN  IF Len(f0) = 0 THEN <<UNCLASSIFIED, None>>
             ELSE <<pitchRule(mean(f0)), mean(f0)>>

----------------------------------------------------------------------------
(* load_ground_truth *)

KeyError == <<"KeyError">>

RECURSIVE lastIndex(_, _)
lastIndex(header, col) ==
    IF header = <<>> THEN 0
    ELSE IF header[Len(header)] = col THEN Len(header)
         ELSE lastIndex(SubSeq(header, 1, Len(header) - 1), col)

\* csv.DictReader: row[col]; a short row is padded with None
dictRowGet(header, row, col, default) ==
    LET i == lastIndex(header, col)
    IN  IF i = 0 THEN default
        ELSE IF i > Len(row) THEN None
        ELSE row[i]

emptyDict == [k \in {} |-> EMPTY]

\* an assignment that keeps the value of a key already present (setdefault)
dictSet_FirstWins(d, k, v) ==
    [x \in DOMAIN d \cup {k} |-> IF x \in DOMAIN d THEN d[x] ELSE v]

dictSet(d, k, v) == [x \in DOMAIN d \cup {k} |-> IF x = k THEN v ELSE d[x]]

\* dict.get without its default
dictGet_NoDefault(d, k, default) == IF k \in DOMAIN d THEN d[k] ELSE EMPTY

dictGet(d, k, default) == IF k \in DOMAIN d THEN d[k] ELSE default

\* an exception leaving load_ground_truth, and its normal return
Raise == [raised |-> TRUE, truth |-> emptyDict]
Return(truth) == [raised |-> FALSE, truth |-> truth]

\* lines 66-68, the body of the loop over the rows
loadRow(truth, header, row) ==
    LET rawName == dictRowGet(header, row, FILENAME, KeyError)
        rawGender == dictRowGet(header, row, GENDER, EMPTY)
    IN  IF rawName = KeyError \/ rawName = None \/ rawGender = None
        THEN Raise
        ELSE Return(dictSet(truth, strip(rawName), lower(strip(rawGender))))

\* lines 64-68; csv.DictReader skips the rows without any cell
RECURSIVE loadRows(_, _, _)
loadRows(truth, header, rows) ==
    IF rows = <<>> THEN Return(truth)
    ELSE IF Head(rows) = <<>> THEN loadRows(truth, header, Tail(rows))
    ELSE LET r == loadRow(truth, header, Head(rows))
         IN  IF r.raised THEN Raise
             ELSE loadRows(r.truth, header, Tail(rows))

\* m is data/meta.csv: [exists, header, rows]
load_ground_truth(m) ==
    IF ~m.exists THEN Raise
    ELSE loadRows(emptyDict, m.header, m.rows)

----------------------------------------------------------------------------
(* process_file *)

\* incorrect computed without the test on the predicted label (line 79)
process_file_LooseIncorrect(fname, gt, a) ==
    LET cg == classify_gender(a)
        pred_label == cg[1]
        mean_freq == cg[2]
        true_label == dictGet(gt, fname, UNKNOWN)
    IN  [file |-> fname,
         predicted |-> pred_label,
         mean_freq |-> IF mean_freq # None THEN format2f(mean_freq) ELSE EMPTY,
         ground_truth |-> true_label,
         correct |-> pred_label = true_label /\ pred_label \in {MALE, FEMALE},
         unclassified |-> pred_label \notin {MALE, FEMALE},
         incorrect |-> pred_label # true_label]

\* the lookup of line 75 skipped when classify_gender reported a fault
process_file_NoLookupOnError(fname, gt, a) ==
    LET cg == classify_gender(a)
        pred_label == cg[1]
        mean_freq == cg[2]
        true_label == IF pred_label = ERROR THEN UNKNOWN
                      ELSE dictGet(gt, fname, UNKNOWN)
    IN  [file |-> fname,
         predicted |-> pred_label,
         mean_freq |-> IF mean_freq # None THEN format2f(mean_freq) ELSE EMPTY,
         ground_truth |-> true_label,
         correct |-> pred_label = true_label /\ pred_label \in {MALE, FEMALE},
         unclassified |-> pred_label \notin {MALE, FEMALE},
         incorrect |-> pred_label \in {MALE, FEMALE} /\ pred_label # true_label]

process_file(fname, gt, a) ==
    LET cg == classify_gender(a)
        pred_label == cg[1]
        mean_freq == cg[2]
        true_label == dictGet(gt, fname, UNKNOWN)
    IN  [file |-> fname,
         predicted |-> pred_label,
         mean_freq |-> IF mean_freq # None THEN format2f(mean_freq) ELSE EMPTY,
         ground_truth |-> true_label,
         correct |-> pred_label = true_label /\ pred_label \in {MALE, FEMALE},
         unclassified |-> pred_label \notin {MALE, FEMALE},
         incorrect |-> pred_label \in {MALE, FEMALE} /\ pred_label # true_label]


----------------------------------------------------------------------------
(* The inputs: the audio directory, the metadata table, the command line *)

A_MP3 == <<"a",".","m","p","3">>
B_MP3 == <<"b",".","m","p","3">>
C_MP3 == <<"c",".","m","p","3">>
D_MP3 == <<"d",".","m","p","3">>
A_WAV == <<"a",".","w","a","v">>

Mp3Pool == {A_MP3, B_MP3, C_MP3, D_MP3}

\* a directory of eleven recordings, one more than line 102 keeps
BigDirNames ==
    {<<c>> \o MP3 : c \in {"a","b","c","d","e","f","g","h","i","j","k"}}

Voiced(f0) == [raises |-> FALSE, f0 |-> f0]
Fault == [raises |-> TRUE, f0 |-> <<>>]

\* a male voice, a female voice, an undecodable file, a silent file and a
\* voice above both bands
AudioFixture(f) ==
    CASE f = A_MP3 -> Voiced(<<118 * Hz, NaN, 122 * Hz>>)
      [] f = B_MP3 -> Voiced(<<200 * Hz>>)
      [] f = C_MP3 -> Fault
      [] f = D_MP3 -> Voiced(<<NaN, NaN>>)
      [] OTHER -> Voiced(<<260 * Hz, 281 * Hz>>)

Missing == [exists |-> FALSE, names |-> {}]
Dir(names) == [exists |-> TRUE, names |-> names]

DiskChoices ==
    {Missing} \cup
    {Dir(S \cup W) : S \in {T \in SUBSET Mp3Pool : Cardinality(T) <= MaxFiles},
                     W \in {{}, {A_WAV}}}

NoMeta == [exists |-> FALSE, header |-> <<>>, rows |-> <<>>]
Meta(header, rows) == [exists |-> TRUE, header |-> header, rows |-> rows]

\* no table, a table without the filename column, a plain table and a table
\* with padded cells, upper case, a repeated file and an empty label
MetaChoices ==
    { NoMeta,
      Meta(<<GENDER>>, << <<MALE>> >>),
      Meta(<<FILENAME, GENDER>>,
           << <<A_MP3, MALE>>, <<B_MP3, MALE>>, <<C_MP3, FEMALE>> >>),
      Meta(<<FILENAME, GENDER>>,
           << <<<<" ">> \o A_MP3, <<"M","a","l","e"," ">> >>,
              <<B_MP3, <<"o","t","h","e","r">> >>,
              <<B_MP3, <<" ","F","E","M","A","L","E">> >>,
              <<D_MP3, EMPTY>> >>) }

ThreadChoices == {1, 2, 4}

\* the frame values of the single file of the unit specification
FramePool ==
    {NaN, 85 * Hz - 1, 85 * Hz, 150 * Hz, 150 * Hz + 1, 255 * Hz, 255 * Hz + 1}

SeqsUpTo(S, n) == UNION {[1..k -> S] : k \in 0..n}

UnitAudioChoices == {Fault} \cup {Voiced(f0) : f0 \in SeqsUpTo(FramePool, MaxFrames)}

LabelCells ==
    {MALE, FEMALE, EMPTY, UNKNOWN, UNCLASSIFIED, ERROR, <<" ","M","A","L","E">>}

UnitMetaChoices ==
    {NoMeta, Meta(<<FILENAME, GENDER>>, <<>>)} \cup
    {Meta(<<FILENAME, GENDER>>, << <<f, g>> >>) :
        f \in {A_MP3, B_MP3}, g \in LabelCells}

\* the cells of the tables of the metadata specification
NameCells == {A_MP3, <<" ">> \o A_MP3 \o <<" ">>, B_MP3}
GenderCells == {MALE, <<" ","F","E","M","A","L","E">>, <<"M","a","l","e"," ">>, EMPTY}

\* a full row, a row that stops after the file name, a line without cells
RowChoices ==
    {<<f, g>> : f \in NameCells, g \in GenderCells}
      \cup {<<f>> : f \in NameCells}
      \cup {<<>>}

RichMetaChoices ==
    {NoMeta} \cup
    {Meta(h, rows) : h \in {<<FILENAME, GENDER>>, <<FILENAME>>},
                     rows \in SeqsUpTo(RowChoices, MaxRows)}

----------------------------------------------------------------------------
(* main *)

\* lines 103-107 and the state before main() has run
Locals ==
    /\ results = <<>>
    /\ correct = 0 /\ incorrect = 0 /\ unclassified = 0 /\ total = 0

InitMain ==
    /\ pc = "parse"
    /\ threads = 1
    /\ ground_truth = emptyDict
    /\ audio_files = <<>>
    /\ Locals
    /\ idx = 0
    /\ futures = <<>>
    /\ csvfile = [written |-> FALSE, rows |-> <<>>]
    /\ printed = <<>>

Init ==
    /\ disk \in DiskChoices
    /\ audio = [f \in {n \in disk.names : endswith(n, MP3)} |-> AudioFixture(f)]
    /\ meta \in MetaChoices
    /\ allFlag \in BOOLEAN
    /\ runs = 1
    /\ prev = <<>>
    /\ InitMain

InitUnit ==
    /\ disk \in {Missing, Dir({A_MP3})}
    /\ audio \in [disk.names -> UnitAudioChoices]
    /\ meta \in UnitMetaChoices
    /\ allFlag = FALSE
    /\ runs = 1
    /\ prev = <<>>
    /\ InitMain

InitMeta ==
    /\ disk \in {Missing, Dir({A_MP3})}
    /\ audio = [f \in disk.names |-> AudioFixture(f)]
    /\ meta \in RichMetaChoices
    /\ allFlag = FALSE
    /\ runs = 1
    /\ prev = <<>>
    /\ InitMain

InitBig ==
    /\ disk \in {Missing, Dir({A_MP3, B_MP3, A_WAV}), Dir(BigDirNames),
                  Dir(BigDirNames \cup {A_WAV})}
    /\ audio = [f \in {n \in disk.names : endswith(n, MP3)} |-> AudioFixture(f)]
    /\ meta \in MetaChoices
    /\ allFlag \in BOOLEAN
    /\ runs = 1
    /\ prev = <<>>
    /\ InitMain

\* line 102
DEFAULT_LIMIT == 10

\* lines 92-95
ParseArgs ==
    /\ pc = "parse"
    /\ \E t \in ThreadChoices :
           /\ t > 1 => Cardinality(disk.names) <= MaxPooled
           /\ threads' = t
    /\ pc' = "load"
    /\ UNCHANGED <<env, ground_truth, audio_files, results, correct, incorrect,
                   unclassified, total, idx, futures, csvfile, printed, runs,
                   prev>>

\* a failed load replaced by an empty table
LoadGroundTruth_Swallow ==
    /\ pc = "load"
    /\ ground_truth' = load_ground_truth(meta).truth
    /\ pc' = "list"
    /\ UNCHANGED <<env, threads, audio_files, results, correct, incorrect,
                   unclassified, total, idx, futures, csvfile, printed, runs,
                   prev>>

\* line 98
LoadGroundTruth ==
    /\ pc = "load"
    /\ LET r == load_ground_truth(meta)
       IN  IF r.raised
           THEN pc' = "fatal" /\ UNCHANGED ground_truth
           ELSE pc' = "list" /\ ground_truth' = r.truth
    /\ UNCHANGED <<env, threads, audio_files, results, correct, incorrect,
                   unclassified, total, idx, futures, csvfile, printed, runs,
                   prev>>

\* the names of S from the greatest to the least
RECURSIVE descending(_)
descending(S) ==
    IF S = {} THEN <<>>
    ELSE LET top == CHOOSE x \in S : \A y \in S \ {x} : strLess(y, x)
         IN  <<top>> \o descending(S \ {top})

\* os.listdir returns the names in arbitrary order: every order of a
\* directory of at most MaxPooled names, two orders of a larger one
listdir(d) ==
    IF Cardinality(d.names) <= MaxPooled
    THEN {s \in [1..Cardinality(d.names) -> d.names] :
             \A i, j \in DOMAIN s : i # j => s[i] # s[j]}
    ELSE LET desc == descending(d.names)
         IN  {desc, Tail(desc) \o <<Head(desc)>>}

\* the selection without line 100
selectFiles_Unsorted(listing, all) ==
    IF ~all THEN slice(mp3Only(listing), DEFAULT_LIMIT) ELSE mp3Only(listing)

\* lines 99-102
selectFiles(listing, all) ==
    LET sorted == sort(mp3Only(listing))
    IN  IF ~all THEN slice(sorted, DEFAULT_LIMIT) ELSE sorted

\* lines 99-107
ListAudio ==
    /\ pc = "list"
    /\ IF ~disk.exists
       THEN pc' = "fatal" /\ UNCHANGED audio_files
       ELSE /\ \E listing \in listdir(disk) :
                   audio_files' = selectFiles(listing, allFlag)
            /\ pc' = IF threads > 1 THEN "submit" ELSE "loop"
    /\ UNCHANGED <<env, threads, ground_truth, results, correct, incorrect,
                   unclassified, total, idx, futures, csvfile, printed, runs,
                   prev>>

\* the counting without the branch of lines 120-121 and 131-132
Tally_NoIncorrect(row) ==
    /\ results' = Append(results, row)
    /\ IF row.correct
       THEN correct' = correct + 1 /\ UNCHANGED <<unclassified, incorrect>>
       ELSE IF row.unclassified
       THEN unclassified' = unclassified + 1 /\ UNCHANGED <<correct, incorrect>>
       ELSE UNCHANGED <<correct, unclassified, incorrect>>
    /\ total' = total + 1

\* the counting with total += 1 indented into the last branch
Tally_TotalInBranch(row) ==
    /\ results' = Append(results, row)
    /\ IF row.correct
       THEN /\ correct' = correct + 1
            /\ UNCHANGED <<unclassified, incorrect, total>>
       ELSE IF row.unclassified
       THEN /\ unclassified' = unclassified + 1
            /\ UNCHANGED <<correct, incorrect, total>>
       ELSE IF row.incorrect
       THEN /\ incorrect' = incorrect + 1 /\ total' = total + 1
            /\ UNCHANGED <<correct, unclassified>>
       ELSE UNCHANGED <<correct, unclassified, incorrect, total>>

\* lines 115-122 and 126-133: append the row and count it
Tally(row) ==
    /\ results' = Append(results, row)
    /\ IF row.correct
       THEN correct' = correct + 1 /\ UNCHANGED <<unclassified, incorrect>>
       ELSE IF row.unclassified
       THEN unclassified' = unclassified + 1 /\ UNCHANGED <<correct, incorrect>>
       ELSE IF row.incorrect
       THEN incorrect' = incorrect + 1 /\ UNCHANGED <<correct, unclassified>>
       ELSE UNCHANGED <<correct, unclassified, incorrect>>
    /\ total' = total + 1

\* lines 124-133, one iteration of the sequential loop
LoopNext ==
    /\ pc = "loop"
    /\ idx < Len(audio_files)
    /\ LET fname == audio_files[idx + 1]
       IN  Tally(process_file(fname, ground_truth, audio[fname]))
    /\ idx' = idx + 1
    /\ UNCHANGED <<env, threads, pc, ground_truth, audio_files, futures,
                   csvfile, printed, runs, prev>>

\* line 124, the sequential loop is exhausted
LoopExit ==
    /\ pc = "loop"
    /\ idx = Len(audio_files)
    /\ pc' = "write"
    /\ UNCHANGED <<env, threads, ground_truth, audio_files, results, correct,
                   incorrect, unclassified, total, idx, futures, csvfile,
                   printed, runs, prev>>

\* lines 110-112: one future per file, queued in the order of audio_files
Submit ==
    /\ pc = "submit"
    /\ futures' = [i \in 1..Len(audio_files) |->
                      [state |-> "pending", row |-> <<>>]]
    /\ pc' = "collect"
    /\ UNCHANGED <<env, threads, ground_truth, audio_files, results, correct,
                   incorrect, unclassified, total, idx, csvfile, printed, runs,
                   prev>>

Running == {i \in DOMAIN futures : futures[i].state = "running"}

\* a worker of the pool takes the oldest queued task (max_workers = threads)
WorkerStart(i) ==
    /\ futures[i].state = "pending"
    /\ \A j \in 1..(i - 1) : futures[j].state # "pending"
    /\ Cardinality(Running) < threads
    /\ futures' = [futures EXCEPT ![i].state = "running"]
    /\ UNCHANGED <<env, threads, pc, ground_truth, audio_files, results,
                   correct, incorrect, unclassified, total, idx, csvfile,
                   printed, runs, prev>>

\* every task working on the last file of the list
WorkerFinish_LastFile(i) ==
    /\ futures[i].state = "running"
    /\ LET fname == audio_files[Len(audio_files)]
       IN  futures' = [futures EXCEPT
               ![i] = [state |-> "finished",
                       row |-> <<process_file(fname, ground_truth,
                                              audio[fname])>>]]
    /\ UNCHANGED <<env, threads, pc, ground_truth, audio_files, results,
                   correct, incorrect, unclassified, total, idx, csvfile,
                   printed, runs, prev>>

\* a worker that stores the label it looked up (setdefault instead of get)
WorkerFinish_StoresLookup(i) ==
    /\ futures[i].state = "running"
    /\ LET fname == audio_files[i]
       IN  /\ futures' = [futures EXCEPT
                  ![i] = [state |-> "finished",
                          row |-> <<process_file(fname, ground_truth,
                                                 audio[fname])>>]]
           /\ ground_truth' = dictSet(ground_truth, fname,
                                      dictGet(ground_truth, fname, UNKNOWN))
    /\ UNCHANGED <<env, threads, pc, audio_files, results,
                   correct, incorrect, unclassified, total, idx, csvfile,
                   printed, runs, prev>>

\* the worker returns from process_file (line 112) and the future is done
WorkerFinish(i) ==
    /\ futures[i].state = "running"
    /\ LET fname == audio_files[i]
       IN  futures' = [futures EXCEPT
               ![i] = [state |-> "finished",
                       row |-> <<process_file(fname, ground_truth,
                                              audio[fname])>>]]
    /\ UNCHANGED <<env, threads, pc, ground_truth, audio_files, results,
                   correct, incorrect, unclassified, total, idx, csvfile,
                   printed, runs, prev>>

\* the collecting loop without lines 116-122
Collect_NoCount(i) ==
    /\ pc = "collect"
    /\ futures[i].state = "finished"
    /\ results' = Append(results, futures[i].row[1])
    /\ futures' = [futures EXCEPT ![i].state = "yielded"]
    /\ UNCHANGED <<env, threads, pc, ground_truth, audio_files, idx, csvfile,
                   printed, runs, prev, correct, incorrect, unclassified,
                   total>>

\* lines 113-122, one iteration over as_completed(futures)
Collect(i) ==
    /\ pc = "collect"
    /\ futures[i].state = "finished"
    /\ Tally(futures[i].row[1])
    /\ futures' = [futures EXCEPT ![i].state = "yielded"]
    /\ UNCHANGED <<env, threads, pc, ground_truth, audio_files, idx, csvfile,
                   printed, runs, prev>>

\* the collecting loop left after the first record
CollectExit_Early ==
    /\ pc = "collect"
    /\ \E i \in DOMAIN futures : futures[i].state = "yielded"
    /\ pc' = "write"
    /\ UNCHANGED <<env, threads, ground_truth, audio_files, results, correct,
                   incorrect, unclassified, total, idx, futures, csvfile,
                   printed, runs, prev>>

\* line 113, as_completed is exhausted, and the executor shuts down
CollectExit ==
    /\ pc = "collect"
    /\ \A i \in DOMAIN futures : futures[i].state = "yielded"
    /\ pc' = "write"
    /\ UNCHANGED <<env, threads, ground_truth, audio_files, results, correct,
                   incorrect, unclassified, total, idx, futures, csvfile,
                   printed, runs, prev>>

\* lines 136 and 140: the columns of a row of results.csv
csvRow(row) ==
    [file |-> row.file, predicted |-> row.predicted,
     mean_freq |-> row.mean_freq, ground_truth |-> row.ground_truth,
     correct |-> row.correct]

\* lines 135-140
WriteCsv ==
    /\ pc = "write"
    /\ csvfile' = [written |-> TRUE,
                   rows |-> [i \in 1..Len(results) |-> csvRow(results[i])]]
    /\ pc' = "print"
    /\ UNCHANGED <<env, threads, ground_truth, audio_files, results, correct,
                   incorrect, unclassified, total, idx, futures, printed, runs,
                   prev>>

\* lines 142-153
PrintStats ==
    /\ pc = "print"
    /\ printed' = <<[total |-> total, correct |-> correct,
                     incorrect |-> incorrect, unclassified |-> unclassified]>>
    /\ pc' = "done"
    /\ UNCHANGED <<env, threads, ground_truth, audio_files, results, correct,
                   incorrect, unclassified, total, idx, futures, csvfile, runs,
                   prev>>

\* the script is invoked again on the same data (line 155-156)
Rerun ==
    /\ pc \in {"done", "fatal"}
    /\ runs < MaxRuns
    /\ prev' = <<[threads |-> threads, fatal |-> pc = "fatal",
                  results |-> results, csvfile |-> csvfile,
                  printed |-> printed]>>
    /\ runs' = runs + 1
    /\ pc' = "parse"
    /\ threads' = 1
    /\ ground_truth' = emptyDict
    /\ audio_files' = <<>>
    /\ results' = <<>>
    /\ correct' = 0 /\ incorrect' = 0 /\ unclassified' = 0 /\ total' = 0
    /\ idx' = 0
    /\ futures' = <<>>
    /\ csvfile' = [written |-> FALSE, rows |-> <<>>]
    /\ printed' = <<>>
    /\ UNCHANGED env

Next ==
    \/ ParseArgs
    \/ LoadGroundTruth
    \/ ListAudio
    \/ LoopNext
    \/ LoopExit
    \/ Submit
    \/ \E i \in DOMAIN futures : WorkerStart(i)
    \/ \E i \in DOMAIN futures : WorkerFinish(i)
    \/ \E i \in DOMAIN futures : Collect(i)
    \/ CollectExit
    \/ WriteCsv
    \/ PrintStats
    \/ Rerun

Spec == Init /\ [][Next]_vars

SpecUnit == InitUnit /\ [][Next]_vars


SpecMeta == InitMeta /\ [][Next]_vars

SpecBig == InitBig /\ [][Next]_vars

\* termination is checked on three directories
InitLive ==
    /\ Init
    /\ disk \in {Missing, Dir({B_MP3, A_WAV}), Dir({A_MP3, C_MP3, D_MP3})}
    /\ ~allFlag

\* the scheduler lets the main thread and the pool's workers take their steps
FairSpec == InitLive /\ [][Next]_vars /\ WF_vars(Next)

----------------------------------------------------------------------------
(* Properties *)

\* every record produced so far: the collected ones and the workers' returns
Produced ==
    {results[i] : i \in DOMAIN results}
      \cup {futures[i].row[1] : i \in {j \in DOMAIN futures : futures[j].row # <<>>}}

Labels == {MALE, FEMALE, UNCLASSIFIED, ERROR}

Count(s, P(_)) == Cardinality({i \in DOMAIN s : P(s[i])})

\* the multiset of the elements of a sequence
BagOf(s) ==
    [x \in {s[i] : i \in DOMAIN s} |-> Cardinality({i \in DOMAIN s : s[i] = x})]

Completed == pc = "done"

\* C1: every record returned by process_file, whatever its predicted label
\* and its ground-truth label, has exactly one of the flags correct,
\* incorrect, unclassified set.
C1_ExactlyOneFlag ==
    \A r \in Produced :
        /\ r.predicted \in Labels
        /\ Cardinality({k \in {"correct", "incorrect", "unclassified"} : r[k]}) = 1

\* a fault scored against an empty ground-truth label
C1_Witness ==
    \E r \in Produced :
        r.predicted = ERROR /\ r.ground_truth = EMPTY /\ r.unclassified

\* C2: the counters printed by a completed run satisfy
\* total = correct + incorrect + unclassified.
C2_TotalIsSum ==
    printed # <<>> =>
        printed[1].total
            = printed[1].correct + printed[1].incorrect + printed[1].unclassified

C2_Witness ==
    /\ Completed /\ threads = 4 /\ printed # <<>>
    /\ printed[1].correct > 0 /\ printed[1].incorrect > 0
    /\ printed[1].unclassified > 0

\* C3: on the same data a completed run with threads = 1 and a completed run
\* with threads = 4 yield the same multiset of records and the same printed
\* counters.
C3_SameBagAndCounts ==
    (Completed /\ prev # <<>> /\ {threads, prev[1].threads} = {1, 4}) =>
        /\ ~prev[1].fatal
        /\ BagOf(results) = BagOf(prev[1].results)
        /\ printed = prev[1].printed

\* the threaded run collected three records in another order than the
\* sequential one
C3_Witness ==
    /\ Completed /\ prev # <<>> /\ threads = 4 /\ prev[1].threads = 1
    /\ Len(results) = 3
    /\ results # prev[1].results

\* C4: a present mean frequency f is male exactly when 85 <= f <= 150, female
\* exactly when 150 < f <= 255 and unclassified otherwise; 85.0 and 150.0 are
\* male, 150.0001 and 255.0 female, 84.9999 and 255.0001 unclassified.
C4_Bands ==
    \A r \in Produced :
        LET a == audio[r.file]
            v == notNaN(a.f0)
            n == Len(v)
            t == sum(v)
        IN  (~a.raises /\ n > 0) =>
              /\ r.predicted = MALE <=> (850000 * n <= t /\ t <= 1500000 * n)
              /\ r.predicted = FEMALE <=> (1500000 * n < t /\ t <= 2550000 * n)
              /\ r.predicted = UNCLASSIFIED <=> (t < 850000 * n \/ t > 2550000 * n)
              /\ v = <<850000>> => r.predicted = MALE
              /\ v = <<1500000>> => r.predicted = MALE
              /\ v = <<1500001>> => r.predicted = FEMALE
              /\ v = <<2550000>> => r.predicted = FEMALE
              /\ v = <<2550001>> => r.predicted = UNCLASSIFIED
              /\ v = <<849999>> => r.predicted = UNCLASSIFIED

\* a mean of 150.00005 Hz, between the two boundary values, is female
C4_Witness ==
    \E r \in Produced :
        /\ audio[r.file].f0 = <<1500000, 1500001>>
        /\ r.predicted = FEMALE

\* the records of file f in the result sequence
RecordsOf(f) == {i \in DOMAIN results : results[i].file = f}

\* C5: a fault on one file does not abort the batch: once the files are
\* selected the run does not fail, and a completed run has one record for
\* every selected file, the faulty ones with predicted label error and
\* unclassified set, all of them counted in the unclassified counter.
C5_FaultIsContained ==
    /\ (pc = "fatal" => audio_files = <<>>)
    /\ Completed =>
         /\ \A k \in DOMAIN audio_files :
                /\ Cardinality(RecordsOf(audio_files[k])) = 1
                /\ audio[audio_files[k]].raises =>
                     \A i \in RecordsOf(audio_files[k]) :
                         /\ results[i].predicted = ERROR
                         /\ results[i].unclassified
         /\ unclassified >= Count(results, LAMBDA r : r.predicted = ERROR)
         /\ unclassified = Count(results, LAMBDA r : r.unclassified)

\* a threaded run in which the faulty file was collected before a sound one
C5_Witness ==
    /\ Completed /\ threads > 1
    /\ Len(results) = 3
    /\ results[1].predicted = ERROR
    /\ results[3].predicted = MALE
    /\ unclassified = 1

\* C6: a file absent from the ground-truth table gets the label unknown, and
\* a record whose ground-truth label is unknown is never correct; a male or
\* female prediction against it is incorrect.
C6_UnknownNeverCorrect ==
    \A r \in Produced :
        /\ r.file \notin DOMAIN ground_truth => r.ground_truth = UNKNOWN
        /\ r.ground_truth = UNKNOWN =>
             /\ ~r.correct
             /\ r.predicted \in {MALE, FEMALE} => r.incorrect

C6_Witness ==
    \E r \in Produced :
        /\ r.file \notin DOMAIN ground_truth
        /\ DOMAIN ground_truth # {}
        /\ r.predicted = MALE
        /\ r.incorrect

Ascending(s) == \A i, j \in DOMAIN s : i < j => strLess(s[i], s[j])

\* C7: with threads = 1 the records are collected in the order of
\* audio_files, which is ascending, and a second run with threads = 1 on the
\* same data yields the same sequence of rows.
C7_SequentialOrder ==
    /\ (threads = 1 /\ pc \in {"loop", "write", "print", "done"}) =>
         /\ Ascending(audio_files)
         /\ Len(results) <= Len(audio_files)
         /\ \A i \in DOMAIN results : results[i].file = audio_files[i]
    /\ (Completed /\ threads = 1 /\ prev # <<>> /\ prev[1].threads = 1) =>
         /\ results = prev[1].results
         /\ csvfile = prev[1].csvfile

C7_Witness ==
    /\ Completed /\ threads = 1 /\ prev # <<>> /\ prev[1].threads = 1
    /\ Len(results) = 3
    /\ A_WAV \in disk.names

NoWork ==
    /\ futures = <<>>
    /\ results = <<>>
    /\ idx = 0
    /\ total = 0
    /\ ~csvfile.written
    /\ printed = <<>>

\* C8: when the ground-truth table cannot be loaded or the audio directory
\* cannot be listed, the run aborts with no task dispatched, no record
\* collected and no results table written.
C8_FatalBeforeWork ==
    /\ (load_ground_truth(meta).raised \/ ~disk.exists) =>
         (NoWork /\ pc \in {"parse", "load", "list", "fatal"})
    /\ pc = "fatal" => NoWork

\* the table loaded, listing the directory failed
C8_Witness ==
    /\ pc = "fatal"
    /\ ~load_ground_truth(meta).raised
    /\ DOMAIN ground_truth # {}
    /\ runs = 2

\* C9: a run whose table and listing were read completes, and then the
\* result sequence has exactly one record for every selected file, so that
\* total is the number of selected files.
C9_CompletesWithAllRecords ==
    /\ (pc \in {"loop", "submit"}) ~> Completed
    /\ [](Completed =>
            /\ Len(results) = Len(audio_files)
            /\ \A k \in DOMAIN audio_files :
                   Cardinality(RecordsOf(audio_files[k])) = 1
            /\ total = Len(audio_files))

\* two workers, the records collected in the reverse of the submission order
C9_Witness ==
    /\ Completed /\ threads = 2
    /\ Len(results) = 3
    /\ \A i \in 1..3 : results[i].file = audio_files[4 - i]

Uncollected == {i \in DOMAIN futures : futures[i].state # "yielded"}

\* C10 as stated: while the record of some dispatched task is not collected
\* the four counters have not been updated.
C10_Original ==
    Uncollected # {} =>
        (total = 0 /\ correct = 0 /\ incorrect = 0 /\ unclassified = 0)

\* C10 amended: the counters are kept by the collecting loop, one update for
\* each collected record: in every state they are the fold over the records
\* collected so far, and a record not yet collected is not counted.
C10_CountersFollowCollection ==
    /\ total = Len(results)
    /\ correct = Count(results, LAMBDA r : r.correct)
    /\ incorrect = Count(results, LAMBDA r : r.incorrect)
    /\ unclassified = Count(results, LAMBDA r : r.unclassified)
    /\ futures # <<>> =>
         total = Cardinality(DOMAIN futures) - Cardinality(Uncollected)

\* one record is counted while a finished one waits and a task still runs
C10_Witness ==
    /\ total = 1
    /\ \E i, j \in Uncollected :
           futures[i].state = "finished" /\ futures[j].state = "running"

\* C11: predicted is error exactly when loading or pitch tracking raised a
\* fault; a file analysed without any voiced frame is unclassified, never
\* error.
C11_ErrorIffFault ==
    \A r \in Produced :
        /\ r.predicted = ERROR <=> audio[r.file].raises
        /\ (~audio[r.file].raises
              /\ \A k \in DOMAIN audio[r.file].f0 : audio[r.file].f0[k] = NaN)
             => r.predicted = UNCLASSIFIED

\* a file analysed with two unvoiced frames
C11_Witness ==
    \E r \in Produced :
        /\ ~audio[r.file].raises
        /\ audio[r.file].f0 = <<NaN, NaN>>
        /\ r.predicted = UNCLASSIFIED

\* what trimming makes of the file-name cells and trimming and lowercasing
\* of the label cells of the metadata tables
CleanName(cell) ==
    CASE cell = <<" ","a",".","m","p","3"," ">> -> <<"a",".","m","p","3">>
      [] OTHER -> cell

CleanLabel(cell) ==
    CASE cell = <<" ","F","E","M","A","L","E">> -> <<"f","e","m","a","l","e">>
      [] cell = <<"M","a","l","e"," ">> -> <<"m","a","l","e">>
      [] cell = <<" ","M","A","L","E">> -> <<"m","a","l","e">>
      [] OTHER -> cell

\* the position of the gender column in the header, 0 without such a column
GenderColumn ==
    IF \E c \in DOMAIN meta.header : meta.header[c] = GENDER
    THEN CHOOSE c \in DOMAIN meta.header : meta.header[c] = GENDER
    ELSE 0

\* the rows with a file name that decide the entry of their file
LastRows ==
    {i \in DOMAIN meta.rows :
        /\ meta.rows[i] # <<>>
        /\ \A j \in DOMAIN meta.rows :
               (j > i /\ meta.rows[j] # <<>>) =>
                   CleanName(meta.rows[j][1]) # CleanName(meta.rows[i][1])}

Loaded == pc \notin {"parse", "load"}

\* C12 as stated: a row without a value in the gender column, because the
\* header has no such column or because the row is shorter than the header,
\* does not make load_ground_truth fail and gives its file the empty label.
C12_Original ==
    (Loaded /\ meta.exists /\ disk.exists) =>
        /\ pc # "fatal"
        /\ \A i \in LastRows :
               (GenderColumn = 0 \/ Len(meta.rows[i]) < GenderColumn) =>
                   /\ CleanName(meta.rows[i][1]) \in DOMAIN ground_truth
                   /\ ground_truth[CleanName(meta.rows[i][1])] = EMPTY

Mp3OnDisk == {n \in disk.names : endswith(n, MP3)}

Selected == pc \in {"loop", "submit", "collect", "write", "print", "done"}

\* s holds the k smallest of the .mp3 names of the directory, ascending
SortedPrefix(s, k) ==
    /\ Len(s) = k
    /\ Ascending(s)
    /\ \A i \in DOMAIN s : s[i] \in Mp3OnDisk
    /\ \A n \in Mp3OnDisk :
           (\A i \in DOMAIN s : s[i] # n) => \A i \in DOMAIN s : strLess(s[i], n)

\* C13 as stated: without --all the run processes the first 100 names of the
\* ascending list of .mp3 files, all of them when there are fewer than 100;
\* with --all it processes the whole list.
C13_Original ==
    Selected =>
        LET n == Cardinality(Mp3OnDisk)
        IN  SortedPrefix(audio_files,
                         IF allFlag \/ n < 100 THEN n ELSE 100)

\* C14: whatever the predicted label, error included, the ground_truth field
\* of a record is the label the table holds for its file, or unknown when
\* the table has no entry for it.
C14_LookupRecorded ==
    \A r \in Produced :
        /\ r.file \in DOMAIN ground_truth => r.ground_truth = ground_truth[r.file]
        /\ r.file \notin DOMAIN ground_truth => r.ground_truth = UNKNOWN

\* the undecodable file c.mp3 keeps the label female of its table row
C14_Witness ==
    \E r \in Produced :
        /\ r.predicted = ERROR
        /\ r.file \in DOMAIN ground_truth
        /\ r.ground_truth = FEMALE

\* the number of rows of s whose flag k is set
Flagged(s, k) == Cardinality({i \in DOMAIN s : s[i][k]})

\* C15: at the end of a completed run, whatever the thread count and the
\* order of completion, the printed counters are the fold over the final
\* result sequence: the numbers of records with the flags correct, incorrect
\* and unclassified, and the length of the sequence.
C15_CountersAreFold ==
    Completed =>
        /\ printed # <<>>
        /\ printed[1].total = Len(results)
        /\ printed[1].correct = Flagged(results, "correct")
        /\ printed[1].incorrect = Flagged(results, "incorrect")
        /\ printed[1].unclassified = Flagged(results, "unclassified")
        /\ Len(csvfile.rows) = printed[1].total

\* a threaded run that collected out of order, with one record of each kind
C15_Witness ==
    /\ Completed /\ threads = 2
    /\ Len(results) = 3
    /\ results[1].file = audio_files[3]
    /\ Flagged(results, "correct") = 1
    /\ Flagged(results, "incorrect") = 1
    /\ Flagged(results, "unclassified") = 1

\* the voiced frames of the file of record r
VoicedFrames(r) ==
    {k \in DOMAIN audio[r.file].f0 : audio[r.file].f0[k] # NaN}

\* no pitch estimate exists for the file of record r
NoEstimate(r) == audio[r.file].raises \/ VoicedFrames(r) = {}

\* C16: mean_freq is empty exactly when there is no pitch estimate (no voiced
\* frame, or a fault); a mean outside 85..255 Hz gives unclassified with a
\* non-empty mean_freq, and every male or female record has a non-empty
\* mean_freq.
C16_MeanFreqField ==
    \A r \in Produced :
        LET f0 == audio[r.file].f0
            n == Cardinality(VoicedFrames(r))
            t == sum([k \in DOMAIN f0 |-> IF f0[k] = NaN THEN 0 ELSE f0[k]])
        IN  /\ r.mean_freq = EMPTY <=> NoEstimate(r)
            /\ (~NoEstimate(r) /\ (t < 850000 * n \/ t > 2550000 * n)) =>
                   (r.predicted = UNCLASSIFIED /\ r.mean_freq # EMPTY)
            /\ r.predicted \in {MALE, FEMALE} => r.mean_freq # EMPTY
            /\ r.mean_freq # EMPTY =>
                   (Len(r.mean_freq) >= 4 /\ r.mean_freq[Len(r.mean_freq) - 2] = ".")

\* a mean of 255.0001 Hz: unclassified, written as 255.00
C16_Witness ==
    \E r \in Produced :
        /\ audio[r.file].f0 = <<NaN, 2550001>>
        /\ r.predicted = UNCLASSIFIED
        /\ r.mean_freq = <<"2","5","5",".","0","0">>

TableBuilt == pc \in {"list", "loop", "submit", "collect", "write", "print", "done"}

\* C17: when several rows have the same trimmed file identifier the table
\* has one entry for it, with the trimmed and lowercased label of the last
\* of these rows.
C17_LastRowWins ==
    TableBuilt =>
        /\ DOMAIN ground_truth = {CleanName(meta.rows[i][1]) : i \in LastRows}
        /\ \A i \in LastRows :
               ground_truth[CleanName(meta.rows[i][1])]
                   = IF GenderColumn = 0 THEN EMPTY
                     ELSE CleanLabel(meta.rows[i][GenderColumn])

\* the padded name with label male, then the same file with " FEMALE"
C17_Witness ==
    /\ TableBuilt
    /\ meta.rows = << <<<<" ","a",".","m","p","3"," ">>, MALE>>,
                      <<A_MP3, <<" ","F","E","M","A","L","E">> >> >>
    /\ DOMAIN ground_truth = {A_MP3}
    /\ ground_truth[A_MP3] = FEMALE

\* C18: the table is built before any task starts and no task and no
\* collection step changes it: from the listing to the end of the run, under
\* every interleaving of the workers, it is the table as loaded from the
\* metadata.
C18_TableReadOnly ==
    (TableBuilt \/ futures # <<>> \/ results # <<>>) =>
        /\ ~load_ground_truth(meta).raised
        /\ ground_truth = load_ground_truth(meta).truth

\* two tasks have returned, one of them for a file without an entry in the
\* table, while a third is running
C18_Witness ==
    /\ pc = "collect"
    /\ DOMAIN ground_truth # {}
    /\ \E i, j, k \in DOMAIN futures :
           /\ futures[i].state = "yielded"
           /\ futures[j].state = "finished"
           /\ futures[k].state = "running"
           /\ audio_files[j] \notin DOMAIN ground_truth

====
